---- MODULE Spec2Model ----
(***************************************************************************)
(* Model of the film dashboard script app.py: the column-name              *)
(* normalisation of the loader, the sidebar filters, the censor-group      *)
(* classification, the currency parser and the five chart derivations.     *)
(*                                                                         *)
(* Text values are sequences of one-character strings; an absent cell      *)
(* (pandas NaN) is the value NaN.                                          *)
(***************************************************************************)
EXTENDS Integers, Sequences, FiniteSets, TLC

VARIABLES
    pc,                     \* position of the script run
    csv,                    \* films.csv: its header and its records
    heap,                   \* the data frames alive in this run, by reference
    df,                     \* reference of the source table
    df_filtered,            \* reference of the filtered view
    selected_main_genre,    \* the selectbox's value
    selected_year_range,    \* the slider's value <<lo, hi>>
    charts,                 \* what each chart of this run was handed
    error,                  \* the exception that ended the run, or "none"
    arg,                    \* input of the function under check
    res                     \* its outcome

vars == <<pc, csv, heap, df, df_filtered, selected_main_genre,
          selected_year_range, charts, error, arg, res>>

-----------------------------------------------------------------------------
(* Text helpers: str.strip, str.upper, str.lower, str.replace.             *)

\* An absent cell; no text has a character named "NaN".
NaN == <<"NaN">>

Whitespace == {" "}

LowerLetters == <<"a","b","c","d","e","f","g","h","i","j","k","l","m",
                  "n","o","p","q","r","s","t","u","v","w","x","y","z">>

UpperLetters == <<"A","B","C","D","E","F","G","H","I","J","K","L","M",
                  "N","O","P","Q","R","S","T","U","V","W","X","Y","Z">>

UpperChar(c) ==
    IF \E i \in 1..26 : LowerLetters[i] = c
    THEN UpperLetters[CHOOSE i \in 1..26 : LowerLetters[i] = c]
    ELSE c

LowerChar(c) ==
    IF \E i \in 1..26 : UpperLetters[i] = c
    THEN LowerLetters[CHOOSE i \in 1..26 : UpperLetters[i] = c]
    ELSE c

Upper(s) == [i \in 1..Len(s) |-> UpperChar(s[i])]

Lower(s) == [i \in 1..Len(s) |-> LowerChar(s[i])]

RECURSIVE LStrip(_)
LStrip(s) ==
    IF s # << >> /\ Head(s) \in Whitespace THEN LStrip(Tail(s)) ELSE s

RECURSIVE RStrip(_)
RStrip(s) ==
    IF s # << >> /\ s[Len(s)] \in Whitespace
    THEN RStrip(SubSeq(s, 1, Len(s) - 1))
    ELSE s

Strip(s) == RStrip(LStrip(s))

\* s.replace(c, "")
Remove(s, c) == SelectSeq(s, LAMBDA ch : ch # c)

\* s.replace(a, b) for one-character a and b
ReplaceChar(s, a, b) == [i \in 1..Len(s) |-> IF s[i] = a THEN b ELSE s[i]]

\* All sequences over S of length at most n.
SeqsUpTo(S, n) == UNION {[1..k -> S] : k \in 0..n}

-----------------------------------------------------------------------------
(* clean_censor, app.py lines 56-67.                                       *)

clean_censor_no_strip(x) ==
    IF x = NaN THEN [kind |-> "return", value |-> "Unknown"]
    ELSE LET u == Upper(x) IN
         [kind |-> "return",
          value |-> IF u \in {<<"U">>, <<"G">>} THEN "All Ages"
                    ELSE IF u \in {<<"U","A">>, <<"P","G">>,
                                   <<"P","G","-","1","3">>}
                         THEN "Parental Guidance"
                    ELSE IF u \in {<<"A">>, <<"R">>} THEN "Adults Only"
                    ELSE "Unknown"]

clean_censor(x) ==
    IF x = NaN THEN [kind |-> "return", value |-> "Unknown"]
    ELSE LET u == Upper(Strip(x)) IN
         [kind |-> "return",
          value |-> IF u \in {<<"U">>, <<"G">>} THEN "All Ages"
                    ELSE IF u \in {<<"U","A">>, <<"P","G">>,
                                   <<"P","G","-","1","3">>}
                         THEN "Parental Guidance"
                    ELSE IF u \in {<<"A">>, <<"R">>} THEN "Adults Only"
                    ELSE "Unknown"]

-----------------------------------------------------------------------------
(* Python's str() and float() on a cell, and parse_gross, app.py lines     *)
(* 115-121.  A number is num * 10^(-scale), negated when neg, kept in      *)
(* lowest terms so that equal numbers are equal records.                   *)

Digits == {"0","1","2","3","4","5","6","7","8","9"}

DigitVal(c) ==
    CASE c = "0" -> 0 [] c = "1" -> 1 [] c = "2" -> 2 [] c = "3" -> 3
      [] c = "4" -> 4 [] c = "5" -> 5 [] c = "6" -> 6 [] c = "7" -> 7
      [] c = "8" -> 8 [] c = "9" -> 9

RECURSIVE Pow10(_)
Pow10(n) == IF n = 0 THEN 1 ELSE 10 * Pow10(n - 1)

RECURSIVE DigitsVal(_)
DigitsVal(s) ==
    IF s = << >> THEN 0
    ELSE DigitsVal(SubSeq(s, 1, Len(s) - 1)) * 10 + DigitVal(s[Len(s)])

RECURSIVE Lowest(_, _)
Lowest(n, sc) ==
    IF sc > 0 /\ n % 10 = 0 THEN Lowest(n \div 10, sc - 1) ELSE <<n, sc>>

Num(neg, n, sc) ==
    LET m == IF sc < 0 THEN n * Pow10(0 - sc) ELSE n
        l == Lowest(m, IF sc < 0 THEN 0 ELSE sc)
    IN  [kind |-> "num", neg |-> neg /\ l[1] # 0, num |-> l[1], scale |-> l[2]]

\* digitpart ::= digit (["_"] digit)*
IsDigitPart(s) ==
    /\ s # << >>
    /\ \A i \in 1..Len(s) : s[i] \in Digits \cup {"_"}
    /\ s[1] \in Digits /\ s[Len(s)] \in Digits
    /\ \A i \in 1..(Len(s) - 1) : ~(s[i] = "_" /\ s[i + 1] = "_")

\* Position of the first character of s that is in S, or 0.
Find(s, S) ==
    IF \E i \in 1..Len(s) : s[i] \in S
    THEN CHOOSE i \in 1..Len(s) :
             s[i] \in S /\ \A j \in 1..(i - 1) : s[j] \notin S
    ELSE 0

Unsigned(s) == IF s # << >> /\ s[1] \in {"+", "-"} THEN Tail(s) ELSE s

IsNeg(s) == s # << >> /\ s[1] = "-"

\* str(x) of a cell: the text itself, "nan" for an absent cell
PyStr(x) == IF x = NaN THEN <<"n","a","n">> ELSE x

\* float(s): [sign] (digitpart ["." [digitpart]] | "." digitpart)
\*           [("e"|"E") [sign] digitpart] | [sign] ("nan"|"inf"|"infinity"),
\* surrounding whitespace ignored; anything else raises ValueError.
PyFloat(s) ==
    LET t    == Strip(s)
        body == Unsigned(t)
        e    == Find(body, {"e", "E"})
        mant == IF e = 0 THEN body ELSE SubSeq(body, 1, e - 1)
        ex   == IF e = 0 THEN << >> ELSE SubSeq(body, e + 1, Len(body))
        exb  == Unsigned(ex)
        d    == Find(mant, {"."})
        ip   == IF d = 0 THEN mant ELSE SubSeq(mant, 1, d - 1)
        fp   == IF d = 0 THEN << >> ELSE SubSeq(mant, d + 1, Len(mant))
        okM  == /\ ip = << >> \/ IsDigitPart(ip)
                /\ fp = << >> \/ IsDigitPart(fp)
                /\ ip # << >> \/ fp # << >>
        okE  == e = 0 \/ IsDigitPart(exb)
        ipd  == Remove(ip, "_")
        fpd  == Remove(fp, "_")
        exv  == IF e = 0 THEN 0
                ELSE IF IsNeg(ex) THEN 0 - DigitsVal(Remove(exb, "_"))
                     ELSE DigitsVal(Remove(exb, "_"))
    IN  IF Lower(body) = <<"n","a","n">> THEN [kind |-> "nan"]
        ELSE IF Lower(body) \in {<<"i","n","f">>,
                                 <<"i","n","f","i","n","i","t","y">>}
             THEN [kind |-> "inf", neg |-> IsNeg(t)]
        ELSE IF okM /\ okE
             THEN Num(IsNeg(t), DigitsVal(ipd \o fpd), Len(fpd) - exv)
        ELSE [kind |-> "ValueError"]

None == [kind |-> "none"]

\* lines 117-118: the text that is handed to float()
GrossText(x) == Strip(Remove(Remove(Remove(PyStr(x), "$"), "M"), ","))

parse_gross_no_except(x) ==
    LET f == PyFloat(GrossText(x))
    IN  IF f.kind = "ValueError" THEN [kind |-> "raise"] ELSE f

parse_gross(x) ==
    LET f == PyFloat(GrossText(x))
    IN  IF f.kind = "ValueError" THEN None ELSE f

\* pandas isna() of a cell of the parsed column: None and nan are both absent
IsNA(v) == v.kind \in {"none", "nan"}

\* Series.round(1) of a cell, line 129: half to even on the decimal value
Round1(v) ==
    IF v.kind # "num" \/ v.scale <= 1 THEN v
    ELSE LET unit == Pow10(v.scale - 1)
             q    == v.num \div unit
             r    == v.num % unit
             up   == 2 * r > unit \/ (2 * r = unit /\ q % 2 = 1)
         IN  Num(v.neg, IF up THEN q + 1 ELSE q, 1)

-----------------------------------------------------------------------------
(* Column-name normalisation, app.py line 21.                              *)

normalize_name(name) == ReplaceChar(Lower(Strip(name)), " ", "_")

normalize_columns(header) ==
    [i \in 1..Len(header) |-> normalize_name(header[i])]

-----------------------------------------------------------------------------
(* DataFrame.nlargest(n, 'rating'), keep = 'first', app.py line 74: the    *)
(* rows of largest rating, in descending order of rating, the earlier row  *)
(* first among equal ratings.                                              *)

TopN == 10

\* the row that a descending stable sort puts first
First(rows) ==
    CHOOSE i \in 1..Len(rows) :
        /\ \A j \in 1..Len(rows) : rows[j].rating <= rows[i].rating
        /\ \A j \in 1..(i - 1) : rows[j].rating < rows[i].rating

\* the row that a descending sort preferring later rows puts first
Last(rows) ==
    CHOOSE i \in 1..Len(rows) :
        /\ \A j \in 1..Len(rows) : rows[j].rating <= rows[i].rating
        /\ \A j \in (i + 1)..Len(rows) : rows[j].rating < rows[i].rating

Without(rows, i) == SubSeq(rows, 1, i - 1) \o SubSeq(rows, i + 1, Len(rows))

RECURSIVE nlargest_keep_last(_, _)
nlargest_keep_last(n, rows) ==
    IF n = 0 \/ rows = << >> THEN << >>
    ELSE LET i == Last(rows)
         IN  <<rows[i]>> \o nlargest_keep_last(n - 1, Without(rows, i))

RECURSIVE nlargest(_, _)
nlargest(n, rows) ==
    IF n = 0 \/ rows = << >> THEN << >>
    ELSE LET i == First(rows)
         IN  <<rows[i]>> \o nlargest(n - 1, Without(rows, i))

-----------------------------------------------------------------------------
(* The table.  A frame is [cols, rows]: cols the column names in order,    *)
(* rows a sequence of [idx, cells], idx the pandas index label of the row  *)
(* and cells a function from the frame's column names to the cell values.  *)

Range(f) == {f[i] : i \in DOMAIN f}

raw_movie_title == <<"M","o","v","i","e"," ","T","i","t","l","e">>
raw_main_genre  == <<"M","a","i","n"," ","G","e","n","r","e">>
raw_year        == <<"Y","e","a","r">>
raw_rating      == <<"R","a","t","i","n","g">>
raw_runtime     == <<"R","u","n","t","i","m","e"," ","(","m","i","n","s",")">>
raw_total_gross == <<"T","o","t","a","l"," ","G","r","o","s","s">>
raw_censor      == <<"C","e","n","s","o","r">>

col_movie_title  == <<"m","o","v","i","e","_","t","i","t","l","e">>
col_main_genre   == <<"m","a","i","n","_","g","e","n","r","e">>
col_year         == <<"y","e","a","r">>
col_rating       == <<"r","a","t","i","n","g">>
col_runtime      == <<"r","u","n","t","i","m","e","_","(","m","i","n","s",")">>
col_total_gross  == <<"t","o","t","a","l","_","g","r","o","s","s">>
col_censor       == <<"c","e","n","s","o","r">>
col_censor_group == <<"c","e","n","s","o","r","_","g","r","o","u","p">>
col_total_gross_millions ==
    col_total_gross \o <<"_","m","i","l","l","i","o","n","s">>

\* pd.read_csv followed by line 21: the records of the file under the
\* normalised names of its header
load_data(file) ==
    LET cols == normalize_columns(file.header)
    IN  [cols |-> cols,
         rows |-> [i \in 1..Len(file.records) |->
                     [idx   |-> i - 1,
                      cells |-> [c \in Range(cols) |->
                                   file.records[i][
                                     CHOOSE k \in 1..Len(cols) : cols[k] = c]]]]]

Column(frame, c) == [i \in 1..Len(frame.rows) |-> frame.rows[i].cells[c]]

\* df.copy(): a new frame with the same content
copy_alias(h, ref) == <<h, ref>>

copy(h, ref) == <<Append(h, h[ref]), Len(h) + 1>>

\* df[mask]: a new frame holding the rows of the mask, in their order
Rows(frame, mask) ==
    LET F[i \in 0..Len(frame.rows)] ==
            IF i = 0 THEN << >>
            ELSE IF mask[i] THEN Append(F[i - 1], frame.rows[i]) ELSE F[i - 1]
    IN  F[Len(frame.rows)]

getitem_mask(h, ref, mask) ==
    <<Append(h, [h[ref] EXCEPT !.rows = Rows(h[ref], mask)]), Len(h) + 1>>

\* frame[c] = values: the column is added to (or replaced in) that frame
setitem(h, ref, c, values) ==
    LET f == h[ref]
        g == [cols |-> IF c \in Range(f.cols) THEN f.cols
                       ELSE Append(f.cols, c),
              rows |-> [i \in 1..Len(f.rows) |->
                          [idx   |-> f.rows[i].idx,
                           cells |-> [k \in DOMAIN f.rows[i].cells \cup {c} |->
                                        IF k = c THEN values[i]
                                        ELSE f.rows[i].cells[k]]]]]
    IN  [h EXCEPT ![ref] = g]

Has(frame, c) == c \in Range(frame.cols)

Min(S) == CHOOSE x \in S : \A y \in S : x <= y

Max(S) == CHOOSE x \in S : \A y \in S : y <= x

\* The elements of a finite set of integers in ascending order.
RECURSIVE Ascending(_)
Ascending(S) ==
    IF S = {} THEN << >> ELSE <<Min(S)>> \o Ascending(S \ {Min(S)})

-----------------------------------------------------------------------------
(* The sidebar, app.py lines 31-51.                                        *)

All == "All"

\* lines 32-34: the options of the selectbox
main_genres(frame) == {All} \cup Range(Column(frame, col_main_genre))

\* lines 45-46: the ends of the slider
min_year(frame) == Min(Range(Column(frame, col_year)))

max_year(frame) == Max(Range(Column(frame, col_year)))

\* line 39: df['main_genre'] == selected_main_genre
genre_mask_any(frame, selected) == [i \in 1..Len(frame.rows) |-> TRUE]

genre_mask(frame, selected) ==
    [i \in 1..Len(frame.rows) |->
        frame.rows[i].cells[col_main_genre] = selected]

\* lines 49-50: (year >= range[0]) & (year <= range[1])
year_mask_exclusive(frame, range) ==
    [i \in 1..Len(frame.rows) |->
        /\ frame.rows[i].cells[col_year] >= range[1]
        /\ frame.rows[i].cells[col_year] < range[2]]

year_mask(frame, range) ==
    [i \in 1..Len(frame.rows) |->
        /\ frame.rows[i].cells[col_year] >= range[1]
        /\ frame.rows[i].cells[col_year] <= range[2]]

NoChart == [shown |-> FALSE, data |-> << >>]

NoCharts == [top10 |-> NoChart, year_avg |-> NoChart, runtime |-> NoChart,
             gross |-> NoChart, censor |-> NoChart]

\* lines 16-21: the script starts by reading the file
Load ==
    /\ pc = "load"
    /\ heap' = <<load_data(csv)>>
    /\ df' = 1
    /\ df_filtered' = 0
    /\ charts' = NoCharts
    /\ error' = "none"
    /\ pc' = "genre"
    /\ UNCHANGED <<csv, selected_main_genre, selected_year_range, arg, res>>

\* lines 31-41
FilterGenre ==
    /\ pc = "genre"
    /\ LET r == IF Has(heap[df], col_main_genre)
                THEN IF selected_main_genre = All
                     THEN copy(heap, df)
                     ELSE getitem_mask(heap, df,
                              genre_mask(heap[df], selected_main_genre))
                ELSE copy(heap, df)
       IN  heap' = r[1] /\ df_filtered' = r[2]
    /\ pc' = "year"
    /\ UNCHANGED <<csv, df, selected_main_genre, selected_year_range, charts,
                   error, arg, res>>

\* lines 44-51
FilterYear ==
    /\ pc = "year"
    /\ LET r == IF Has(heap[df], col_year)
                THEN getitem_mask(heap, df_filtered,
                         year_mask(heap[df_filtered], selected_year_range))
                ELSE <<heap, df_filtered>>
       IN  heap' = r[1] /\ df_filtered' = r[2]
    /\ pc' = "censor"
    /\ UNCHANGED <<csv, df, selected_main_genre, selected_year_range, charts,
                   error, arg, res>>

Raise(e) ==
    /\ pc' = "raised"
    /\ error' = e

\* line 69
AssignCensorGroup ==
    /\ pc = "censor"
    /\ IF ~Has(heap[df_filtered], col_censor)
       THEN Raise("KeyError") /\ UNCHANGED heap
       ELSE LET out == [i \in 1..Len(heap[df_filtered].rows) |->
                          clean_censor(
                              heap[df_filtered].rows[i].cells[col_censor])]
            IN  IF \E i \in DOMAIN out : out[i].kind = "raise"
                THEN Raise("AttributeError") /\ UNCHANGED heap
                ELSE /\ heap' = setitem(heap, df_filtered, col_censor_group,
                                    [i \in DOMAIN out |-> out[i].value])
                     /\ pc' = "chart1"
                     /\ UNCHANGED error
    /\ UNCHANGED <<csv, df, df_filtered, selected_main_genre,
                   selected_year_range, charts, arg, res>>

-----------------------------------------------------------------------------
(* The five charts, app.py lines 71-167.  A chart that is drawn records    *)
(* what it was handed.                                                     *)

RECURSIVE SumSeq(_)
SumSeq(s) == IF s = << >> THEN 0 ELSE Head(s) + SumSeq(Tail(s))

\* line 84: groupby('year')['rating'].mean().reset_index(); a mean is kept
\* as the sum and the count of its group
year_avg(frame) ==
    LET ys == Ascending(Range(Column(frame, col_year)))
    IN  [k \in 1..Len(ys) |->
           LET grp == SelectSeq(frame.rows,
                          LAMBDA r : r.cells[col_year] = ys[k])
           IN  [year  |-> ys[k],
                sum   |-> SumSeq([i \in 1..Len(grp) |->
                                    grp[i].cells[col_rating]]),
                count |-> Len(grp)]]

\* line 126: dropna(subset=['total_gross_millions']) gives a new frame
dropna_inplace(h, ref, c) ==
    LET r == getitem_mask(h, ref,
                 [i \in 1..Len(h[ref].rows) |-> ~IsNA(h[ref].rows[i].cells[c])])
    IN  <<[h EXCEPT ![ref] = r[1][r[2]]], ref>>

dropna(h, ref, c) ==
    getitem_mask(h, ref,
        [i \in 1..Len(h[ref].rows) |-> ~IsNA(h[ref].rows[i].cells[c])])

Skip(next) ==
    /\ pc' = next
    /\ UNCHANGED <<heap, charts, error>>

\* lines 72-79
Chart1 ==
    /\ pc = "chart1"
    /\ LET f == heap[df_filtered]
       IN  IF Has(f, col_rating) /\ Has(f, col_movie_title) /\ Len(f.rows) > 0
           THEN /\ charts' = [charts EXCEPT !.top10 =
                      [shown |-> TRUE,
                       data  |-> nlargest(TopN,
                                   [i \in 1..Len(f.rows) |->
                                      [idx    |-> f.rows[i].idx,
                                       rating |-> f.rows[i].cells[col_rating],
                                       movie_title |->
                                           f.rows[i].cells[col_movie_title]]])]]
                /\ pc' = "chart2"
                /\ UNCHANGED <<heap, error>>
           ELSE Skip("chart2")
    /\ UNCHANGED <<csv, df, df_filtered, selected_main_genre,
                   selected_year_range, arg, res>>

\* lines 82-95
Chart2 ==
    /\ pc = "chart2"
    /\ LET f == heap[df_filtered]
       IN  IF Has(f, col_year) /\ Has(f, col_rating) /\ Len(f.rows) > 0
           THEN /\ charts' = [charts EXCEPT !.year_avg =
                      [shown |-> TRUE, data |-> year_avg(f)]]
                /\ pc' = "chart3"
                /\ UNCHANGED <<heap, error>>
           ELSE Skip("chart3")
    /\ UNCHANGED <<csv, df, df_filtered, selected_main_genre,
                   selected_year_range, arg, res>>

\* lines 98-104
Chart3 ==
    /\ pc = "chart3"
    /\ LET f == heap[df_filtered]
       IN  IF Has(f, col_runtime) /\ Len(f.rows) > 0
           THEN /\ charts' = [charts EXCEPT !.runtime =
                      [shown |-> TRUE,
                       data  |-> SelectSeq(Column(f, col_runtime),
                                     LAMBDA v : ~IsNA(v))]]
                /\ pc' = "chart4"
                /\ UNCHANGED <<heap, error>>
           ELSE Skip("chart4")
    /\ UNCHANGED <<csv, df, df_filtered, selected_main_genre,
                   selected_year_range, arg, res>>

\* lines 107-145; px.scatter raises ValueError when hover_name names no
\* column of the frame it is given
Chart4 ==
    /\ pc = "chart4"
    /\ LET f == heap[df_filtered]
       IN  IF Has(f, col_rating) /\ Has(f, col_total_gross) /\ Len(f.rows) > 0
           THEN LET out == [i \in 1..Len(f.rows) |->
                              parse_gross(f.rows[i].cells[col_total_gross])]
                IN  IF \E i \in DOMAIN out : out[i].kind = "raise"
                    THEN Raise("ValueError") /\ UNCHANGED <<heap, charts>>
                    ELSE LET h1 == setitem(heap, df_filtered,
                                       col_total_gross_millions, out)
                             r  == dropna(h1, df_filtered,
                                       col_total_gross_millions)
                             df_plot == r[2]
                             h2 == setitem(r[1], df_plot,
                                       col_total_gross_millions,
                                       [i \in 1..Len(r[1][df_plot].rows) |->
                                          Round1(r[1][df_plot].rows[i].cells[
                                              col_total_gross_millions])])
                         IN  /\ heap' = h2
                             /\ IF Has(h2[df_plot], col_movie_title)
                                THEN /\ charts' = [charts EXCEPT !.gross =
                                           [shown |-> TRUE,
                                            data  |-> h2[df_plot].rows]]
                                     /\ pc' = "chart5"
                                     /\ UNCHANGED error
                                ELSE Raise("ValueError") /\ UNCHANGED charts
           ELSE Skip("chart5")
    /\ UNCHANGED <<csv, df, df_filtered, selected_main_genre,
                   selected_year_range, arg, res>>

\* lines 149-167
Chart5 ==
    /\ pc = "chart5"
    /\ LET f == heap[df_filtered]
       IN  IF Has(f, col_censor_group) /\ Has(f, col_rating) /\ Len(f.rows) > 0
           THEN /\ charts' = [charts EXCEPT !.censor =
                      [shown |-> TRUE,
                       data  |-> [i \in 1..Len(f.rows) |->
                                    [idx |-> f.rows[i].idx,
                                     censor_group |->
                                         f.rows[i].cells[col_censor_group],
                                     rating |-> f.rows[i].cells[col_rating]]]]]
                /\ pc' = "done"
                /\ UNCHANGED <<heap, error>>
           ELSE Skip("done")
    /\ UNCHANGED <<csv, df, df_filtered, selected_main_genre,
                   selected_year_range, arg, res>>

\* A control change reruns the script from its first line.
Rerun ==
    /\ pc \in {"done", "raised"}
    /\ pc' = "load"
    /\ heap' = << >>
    /\ df' = 0
    /\ df_filtered' = 0
    /\ charts' = NoCharts
    /\ error' = "none"
    /\ UNCHANGED <<csv, arg, res>>

\* line 35: the user picks another option of the selectbox
SelectGenre ==
    /\ Rerun
    /\ Has(heap[df], col_main_genre)
    /\ \E g \in main_genres(heap[df]) \ {selected_main_genre} :
           selected_main_genre' = g
    /\ UNCHANGED selected_year_range

\* line 47: the user moves an end of the slider
SelectYearRange ==
    /\ Rerun
    /\ Has(heap[df], col_year)
    /\ \E lo \in min_year(heap[df])..max_year(heap[df]) :
       \E hi \in lo..max_year(heap[df]) :
           /\ <<lo, hi>> # selected_year_range
           /\ selected_year_range' = <<lo, hi>>
    /\ UNCHANGED selected_main_genre

-----------------------------------------------------------------------------
(* The file.  A record of films.csv holds, in the order of the header:     *)
(* title, genre, year, rating (in tenths), runtime, total gross, censor.   *)

MaxRows == 2

RawHeader == <<raw_movie_title, raw_main_genre, raw_year, raw_rating,
               raw_runtime, raw_total_gross, raw_censor>>

Absent == [kind |-> "nan"]

Films ==
    << <<"Alpha", "Action", 2000, 80, Num(FALSE, 120, 0),
         <<"$","1","2","3",".","4","M">>, <<"U">> >>,
       <<"Bravo", "Drama", 2001, 70, Absent,
         <<"N","/","A">>, NaN >>,
       <<"Charlie", "Action", 2001, 80, Num(FALSE, 95, 0),
         NaN, <<" ","p","g","-","1","3">> >>,
       <<"Delta", "Drama", 2000, 65, Num(FALSE, 100, 0),
         <<"$","1",",","2","3","4","M">>, <<"X">> >> >>

\* The subsequence of s at the positions K.
Pick(s, K) ==
    LET ks == Ascending(K) IN [i \in 1..Len(ks) |-> s[ks[i]]]

Files ==
    {[header  |-> Pick(RawHeader, K),
      records |-> [i \in 1..Len(fs) |-> Pick(Films[fs[i]], K)]] :
        K \in SUBSET (1..Len(RawHeader)),
        fs \in SeqsUpTo(1..Len(Films), MaxRows) \ {<< >>}}

NoFile == [header |-> << >>, records |-> << >>]

Init ==
    /\ pc = "load"
    /\ csv \in Files
    /\ heap = << >>
    /\ df = 0
    /\ df_filtered = 0
    /\ selected_main_genre = All
    /\ selected_year_range =
           IF Has(load_data(csv), col_year)
           THEN <<min_year(load_data(csv)), max_year(load_data(csv))>>
           ELSE <<0, 0>>
    /\ charts = NoCharts
    /\ error = "none"
    /\ arg = << >>
    /\ res = None

Next ==
    \/ Load
    \/ FilterGenre
    \/ FilterYear
    \/ AssignCensorGroup
    \/ Chart1
    \/ Chart2
    \/ Chart3
    \/ Chart4
    \/ Chart5
    \/ SelectGenre
    \/ SelectYearRange

Spec == Init /\ [][Next]_vars

-----------------------------------------------------------------------------
(* Specifications of the single functions: the input is drawn at the       *)
(* start and the one action applies the function to it.                    *)

Idle ==
    /\ csv = NoFile
    /\ heap = << >>
    /\ df = 0
    /\ df_filtered = 0
    /\ selected_main_genre = All
    /\ selected_year_range = <<0, 0>>
    /\ charts = NoCharts
    /\ error = "none"
    /\ res = None

MaxCensorLen == 3

CensorAlphabet == {"U", "u", "A", "g", "r", "p", " ", "X"}

CensorSamples ==
    {<<"p","g","-","1","3">>, <<"P","G","-","1","3">>, <<"P","G","1","3">>,
     <<" ","P","g","-","1","3"," ">>, <<"P","G"," ","1","3">>,
     <<"N","C","-","1","7">>, <<"U","/","A">>, <<"1","8">>}

CensorInputs ==
    {NaN} \cup SeqsUpTo(CensorAlphabet, MaxCensorLen) \cup CensorSamples

InitCensor == pc = "call" /\ arg \in CensorInputs /\ Idle

CallCleanCensor ==
    /\ pc = "call"
    /\ pc' = "return"
    /\ res' = clean_censor(arg)
    /\ UNCHANGED <<csv, heap, df, df_filtered, selected_main_genre,
                   selected_year_range, charts, error, arg>>

SpecCensor == InitCensor /\ [][CallCleanCensor]_vars

MaxGrossLen == 4

GrossAlphabet == {"$", "M", ",", ".", "1", "0", " ", "N"}

GrossSamples ==
    {<<"$","1","2","3",".","4","M">>, <<"N","/","A">>,
     <<"$","1",",","2","3","4","M">>, <<"$"," ","5","M"," ">>,
     <<"$","1","2",".","3","4","5","M">>, <<"1","2","3","4","5","6">>,
     <<"$","1",".","2","B">>, <<"1"," ","0","0","0">>}

GrossInputs ==
    {NaN} \cup SeqsUpTo(GrossAlphabet, MaxGrossLen) \cup GrossSamples

InitGross == pc = "call" /\ arg \in GrossInputs /\ Idle

CallParseGross ==
    /\ pc = "call"
    /\ pc' = "return"
    /\ res' = parse_gross(arg)
    /\ UNCHANGED <<csv, heap, df, df_filtered, selected_main_genre,
                   selected_year_range, charts, error, arg>>

SpecGross == InitGross /\ [][CallParseGross]_vars

MaxNameLen == 2

MaxColumns == 2

NameAlphabet == {"A", "a", " ", "_"}

RawNames == SeqsUpTo(NameAlphabet, MaxNameLen) \ {<< >>}

\* The headers of distinct raw names.
Headers ==
    {h \in SeqsUpTo(RawNames, MaxColumns) :
        \A i, j \in 1..Len(h) : h[i] = h[j] => i = j}

InitNorm == pc = "call" /\ arg \in Headers /\ Idle

CallNormalizeColumns ==
    /\ pc = "call"
    /\ pc' = "return"
    /\ res' = normalize_columns(arg)
    /\ UNCHANGED <<csv, heap, df, df_filtered, selected_main_genre,
                   selected_year_range, charts, error, arg>>

SpecNorm == InitNorm /\ [][CallNormalizeColumns]_vars

MaxTopRows == 11

Ratings == {65, 70, 80}

\* A filtered view of k rows with the given ratings.
Rated(rs) == [i \in 1..Len(rs) |-> [idx |-> i - 1, rating |-> rs[i]]]

InitTop ==
    /\ pc = "call"
    /\ arg \in {Rated(rs) : rs \in SeqsUpTo(Ratings, MaxTopRows) \ {<< >>}}
    /\ Idle

CallNlargest ==
    /\ pc = "call"
    /\ pc' = "return"
    /\ res' = nlargest(TopN, arg)
    /\ UNCHANGED <<csv, heap, df, df_filtered, selected_main_genre,
                   selected_year_range, charts, error, arg>>

SpecTop == InitTop /\ [][CallNlargest]_vars

-----------------------------------------------------------------------------
(* Properties.                                                             *)

Source == load_data(csv)

View == heap[df_filtered]

\* Both sidebar filters of this run have been applied.
Filtered ==
    pc \in {"censor", "chart1", "chart2", "chart3", "chart4", "chart5",
            "done", "raised"}

Idx(rows) == [i \in 1..Len(rows) |-> rows[i].idx]

ChartsShown == {c \in DOMAIN charts : charts[c].shown}

\* The columns each chart asks for in its guard.
Needs(c) ==
    CASE c = "top10"    -> {col_rating, col_movie_title}
      [] c = "year_avg" -> {col_year, col_rating}
      [] c = "runtime"  -> {col_runtime}
      [] c = "gross"    -> {col_rating, col_total_gross}
      [] c = "censor"   -> {col_rating}

\* C1: whatever expected columns the file lacks, a run of the script raises
\* nothing, and a finished run has drawn exactly the charts whose columns
\* are there (the view having rows).
SchemaGapNeverRaises ==
    /\ error = "none"
    /\ pc = "done" =>
          LET present == Range(Source.cols)
          IN  \A c \in DOMAIN charts :
                  charts[c].shown <=>
                      Needs(c) \subseteq present /\ View.rows # << >>

\* C2: the filtered view holds only rows of the source table, in their
\* original order, and each satisfies the genre selection (unless it is
\* "All") and lies in the selected year range.
FilteredViewSound ==
    Filtered =>
        LET src  == Source
            rows == View.rows
        IN  /\ \A i \in 1..Len(rows) :
                  \E j \in 1..Len(src.rows) :
                      /\ src.rows[j].idx = rows[i].idx
                      /\ \A c \in Range(src.cols) :
                            rows[i].cells[c] = src.rows[j].cells[c]
            /\ \A i, k \in 1..Len(rows) :
                  i < k => rows[i].idx < rows[k].idx
            /\ Has(src, col_main_genre) /\ selected_main_genre # All =>
                  \A i \in 1..Len(rows) :
                      rows[i].cells[col_main_genre] = selected_main_genre
            /\ Has(src, col_year) =>
                  \A i \in 1..Len(rows) :
                      /\ selected_year_range[1] <= rows[i].cells[col_year]
                      /\ rows[i].cells[col_year] <= selected_year_range[2]

FilteredViewSoundWitness ==
    /\ Filtered
    /\ Has(Source, col_main_genre) /\ Has(Source, col_year)
    /\ selected_main_genre # All
    /\ selected_year_range # <<min_year(Source), max_year(Source)>>
    /\ View.rows # << >>
    /\ Len(View.rows) < Len(Source.rows)

\* C3: with the genre at "All" and the year range at the smallest and the
\* largest year of the table, the view holds every row of the table.
FullRangeKeepsAll ==
    Filtered /\ selected_main_genre = All =>
        LET src == Source
        IN  /\ Has(src, col_year)
            /\ selected_year_range = <<min_year(src), max_year(src)>>
            => /\ Idx(View.rows) = Idx(src.rows)
               /\ \A i \in 1..Len(src.rows) : \A c \in Range(src.cols) :
                     View.rows[i].cells[c] = src.rows[i].cells[c]

FullRangeKeepsAllWitness ==
    /\ Filtered
    /\ Has(Source, col_year) /\ Has(Source, col_main_genre)
    /\ selected_main_genre = All
    /\ selected_year_range = <<min_year(Source), max_year(Source)>>
    /\ min_year(Source) < max_year(Source)
    /\ Len(View.rows) > 1

CensorGroups == {"All Ages", "Parental Guidance", "Adults Only", "Unknown"}

CensorCodes ==
    {<<"U">>, <<"G">>, <<"U","A">>, <<"P","G">>, <<"P","G","-","1","3">>,
     <<"A">>, <<"R">>}

Bucket(code) ==
    CASE code \in {<<"U">>, <<"G">>} -> "All Ages"
      [] code \in {<<"U","A">>, <<"P","G">>, <<"P","G","-","1","3">>} ->
             "Parental Guidance"
      [] code \in {<<"A">>, <<"R">>} -> "Adults Only"

\* The text x is the code c, in any letter case, between any blanks.
Spells(x, c) ==
    \E l \in 0..Len(x) :
        /\ l + Len(c) <= Len(x)
        /\ \A i \in 1..Len(x) :
              IF l < i /\ i <= l + Len(c)
              THEN x[i] \in {c[i - l], LowerChar(c[i - l])}
              ELSE x[i] = " "

\* C4: clean_censor returns for every cell one of the four groups and never
\* raises: "Unknown" for an absent cell; for a text, the group of the code
\* it spells once trimmed and upper-cased, and "Unknown" when it spells none.
CleanCensorTotal ==
    pc = "return" =>
        /\ res.kind = "return"
        /\ res.value \in CensorGroups
        /\ arg = NaN => res.value = "Unknown"
        /\ arg # NaN =>
              /\ \A c \in CensorCodes :
                    Spells(arg, c) => res.value = Bucket(c)
              /\ (\A c \in CensorCodes : ~Spells(arg, c)) =>
                    res.value = "Unknown"

CleanCensorTotalWitness ==
    /\ pc = "return"
    /\ arg = <<" ","P","g","-","1","3"," ">>
    /\ res.value = "Parental Guidance"

\* What is left of a text without its '$', 'M' and ',' and without the
\* blanks around the rest.
Core(x) ==
    LET k  == SelectSeq(x, LAMBDA c : c \notin {"$", "M", ","})
        nb == {i \in 1..Len(k) : k[i] # " "}
    IN  IF nb = {} THEN << >> ELSE SubSeq(k, Min(nb), Max(nb))

\* Digits with at most one point among them.
PlainDecimal(s) ==
    /\ \E i \in 1..Len(s) : s[i] \in Digits
    /\ \A i \in 1..Len(s) : s[i] \in Digits \cup {"."}
    /\ Cardinality({i \in 1..Len(s) : s[i] = "."}) <= 1

DecimalValue(s) ==
    LET after == {i \in 1..Len(s) : \E j \in 1..(i - 1) : s[j] = "."}
    IN  Num(FALSE, DigitsVal(SelectSeq(s, LAMBDA c : c \in Digits)),
            Cardinality(after))

\* Text with no sign, exponent, digit-group underscore or float name.
PlainText(x) ==
    /\ \A i \in 1..Len(x) : x[i] \notin {"e", "E", "_", "+", "-"}
    /\ Lower(Core(x)) \notin {<<"n","a","n">>, <<"i","n","f">>,
                              <<"i","n","f","i","n","i","t","y">>}

\* C5: parse_gross never raises; it returns the number written by the text
\* once '$', 'M', ',' and the surrounding blanks are taken away, and an
\* absent result for an absent cell and for a text that leaves no number.
ParseGrossTotal ==
    pc = "return" =>
        /\ res.kind \in {"num", "inf", "nan", "none"}
        /\ arg = NaN => IsNA(res)
        /\ arg # NaN /\ PlainText(arg) =>
              IF PlainDecimal(Core(arg))
              THEN res = DecimalValue(Core(arg))
              ELSE IsNA(res)
        /\ arg = <<"$","1","2","3",".","4","M">> =>
              res = [kind |-> "num", neg |-> FALSE, num |-> 1234, scale |-> 1]
        /\ arg = <<"$","1",",","2","3","4","M">> =>
              res = [kind |-> "num", neg |-> FALSE, num |-> 1234, scale |-> 0]
        /\ arg = <<"N","/","A">> => res = None
        /\ arg = << >> => res = None

ParseGrossTotalWitness ==
    /\ pc = "return"
    /\ arg = <<"$","1",",","2","3","4","M">>
    /\ res.kind = "num"

\* C6: the top-10 derivation returns min(10, rows) rows of the view, those
\* of largest rating, in descending order of rating, the earlier row first
\* and preferred among equal ratings.
Before(a, b) ==
    a.rating > b.rating \/ (a.rating = b.rating /\ a.idx < b.idx)

TopTenLargest ==
    pc = "return" =>
        /\ Len(res) = IF Len(arg) < 10 THEN Len(arg) ELSE 10
        /\ Range(res) \subseteq Range(arg)
        /\ \A k, m \in 1..Len(res) : k < m => Before(res[k], res[m])
        /\ \A a \in Range(arg) \ Range(res) :
              \A k \in 1..Len(res) : Before(res[k], a)

TopTenLargestWitness ==
    /\ pc = "return"
    /\ Len(arg) > 10
    /\ \E a \in Range(arg) \ Range(res) : a.rating = res[10].rating
    /\ res[1].rating > res[10].rating

\* C7: when the filters leave the view without rows, the run raises nothing
\* and draws no chart.
EmptyViewCompletes ==
    Filtered /\ View.rows = << >> =>
        /\ pc # "raised"
        /\ ChartsShown = {}

\* The same, for a file that has the censor column.
EmptyViewCompletesWithCensor ==
    Filtered /\ View.rows = << >> /\ Has(Source, col_censor) =>
        /\ pc # "raised"
        /\ ChartsShown = {}

\* C8: a row whose total gross does not parse is left out of the gross
\* chart only: the view keeps every row the filters kept, the censor-group
\* chart of the same run is handed all of them, and the gross chart exactly
\* those whose total gross parsed.
Kept(src) ==
    {r.idx : r \in
        {r \in Range(src.rows) :
            /\ Has(src, col_main_genre) /\ selected_main_genre # All =>
                  r.cells[col_main_genre] = selected_main_genre
            /\ Has(src, col_year) =>
                  /\ selected_year_range[1] <= r.cells[col_year]
                  /\ r.cells[col_year] <= selected_year_range[2]}}

Parsed(src) ==
    {r.idx : r \in
        {r \in Range(src.rows) :
            ~IsNA(parse_gross(r.cells[col_total_gross]))}}

ParseFailureIsLocal ==
    pc = "done" /\ charts.gross.shown =>
        LET src == Source
        IN  /\ Range(Idx(View.rows)) = Kept(src)
            /\ charts.censor.shown
            /\ Range(Idx(charts.censor.data)) = Kept(src)
            /\ Range(Idx(charts.gross.data)) = Kept(src) \cap Parsed(src)

ParseFailureIsLocalWitness ==
    /\ pc = "done"
    /\ charts.gross.shown /\ charts.censor.shown
    /\ Len(charts.gross.data) = 1
    /\ Len(charts.censor.data) = 2

\* C9: nothing a run does changes the rows or the columns of the source
\* table: after loading, it stays what the file holds.
SourceReadOnly ==
    pc # "load" => heap[df] = Source

SourceReadOnlyWitness ==
    /\ pc = "done"
    /\ Has(View, col_censor_group) /\ Has(View, col_total_gross_millions)
    /\ selected_main_genre = All
    /\ ~Has(Source, col_year)
    /\ ~Has(heap[df], col_censor_group)

\* C10: the normalised names of distinct raw column names are unique,
\* lower-case, trimmed and free of spaces.
LowerTrimmedSpaceFree ==
    pc = "return" =>
        \A i \in 1..Len(res) :
            /\ \A k \in 1..Len(res[i]) :
                  res[i][k] \notin Range(UpperLetters) \cup {" "}
            /\ res[i] # << >> =>
                  res[i][1] \notin Whitespace
                  /\ res[i][Len(res[i])] \notin Whitespace

ColumnsNormalized ==
    /\ LowerTrimmedSpaceFree
    /\ pc = "return" =>
          \A i, j \in 1..Len(res) : res[i] = res[j] => i = j

====
